---------------------------- MODULE Spec2Model ----------------------------
(***************************************************************************)
(* A model of gonifti: the NIfTI-1 decode pipeline of package nifti1       *)
(* (ReadHeader, validateHeader, ConvertHeaderToImage, Image.SetData), the  *)
(* rescale helper scaleData of the first command-line program, and the     *)
(* chunked parallel file reader util.ReadBytesParallel.                    *)
(*                                                                         *)
(* Representation.  A byte is a number in 0..255.  A []byte is a record    *)
(* [data, cap]: data is the sequence of its len bytes, cap its capacity.   *)
(* Go's offset k is data[k + 1].  A Header is a function from field name   *)
(* to the sequence of the field's elements; an integer element is its      *)
(* value, a float32 element is its IEEE-754 bit pattern read as an int32   *)
(* (binary.Read builds a float32 from exactly these bits).                 *)
(***************************************************************************)
EXTENDS Integers, Sequences, FiniteSets, TLC

VARIABLES
    b,          \* main: allBytes, the file's bytes in memory
    pc,         \* main: the next call, or "done" / "exit"
    err,        \* the panic or log.Fatal that ended the process, "" if none
    h,          \* ReadHeader: its local h, as last decoded
    decodes,    \* ReadHeader: the binary.Read calls made, <<order, start>>
    header,     \* main: header, as returned by ReadHeader
    byteOrder,  \* main: byteOrder, as returned by ReadHeader
    image,      \* main: *image, as built by ConvertHeaderToImage
    data,       \* scaleData: its argument data
    m,          \* scaleData: its argument m (slope)
    bInter,     \* scaleData: its argument b (intercept)
    scaled,     \* scaleData: what it returned
    spc,        \* the first program's main: "scale" before the call, "done" after
    filesize,   \* ReadBytesParallel: filesize
    bufferSize, \* ReadBytesParallel: bufferSize
    chunksizes, \* ReadBytesParallel: chunksizes, a sequence of [bufsize, offset]
    rpc,        \* ReadBytesParallel: "spawn", "wait", "returned"
    spawned,    \* ReadBytesParallel: the loop variable i of the spawning loop
    wpc,        \* per goroutine: "none", "reading", "done"
    wg,         \* ReadBytesParallel: the WaitGroup's counter
    writers     \* per index of allBytes: the goroutines that wrote it

pipeVars == <<b, pc, err, h, decodes, header, byteOrder, image>>
scaleVars == <<data, m, bInter, scaled, spc>>
parVars == <<filesize, bufferSize, chunksizes, rpc, spawned, wpc, wg, writers>>
vars == <<pipeVars, scaleVars, parVars>>

---------------------------------------------------------------------------
(* Bounds of the model *)

\* the extent dim[1] of the input headers ranges over 1..MaxExtent
MaxExtent == 2
\* a file is up to MaxSlack bytes shorter than its header declares, and the
\* capacity of its buffer up to MaxSlack bytes more than its length
MaxSlack == 1
\* scaleData is given up to MaxSamples samples
MaxSamples == 3
\* ReadBytesParallel reads files of 0..MaxFileSize bytes
MaxFileSize == 5
\* in chunks of 1..MaxBufferSize bytes
MaxBufferSize == 3

---------------------------------------------------------------------------
(* Program constants *)

headerSize == 352
minHeaderSize == 348
DT_UNKNOWN == 0
DT_BINARY == 1

LittleEndian == "LittleEndian"
BigEndian == "BigEndian"

---------------------------------------------------------------------------
(* encoding/binary over the Header struct *)

\* The fields of Header in declaration order: <<name, bytes per element, elements>>.
FieldTable ==
    << <<"SizeOfHdr", 4, 1>>, <<"UnusedDataType", 1, 10>>, <<"UnusedDbName", 1, 18>>,
       <<"UnusedExtents", 4, 1>>, <<"UnusedSessionError", 2, 1>>,
       <<"UnusedRegular", 1, 1>>, <<"DimInfo", 1, 1>>,
       <<"Dim", 2, 8>>, <<"IntentP1", 4, 1>>, <<"IntentP2", 4, 1>>,
       <<"IntentP3", 4, 1>>, <<"IntentCode", 2, 1>>, <<"DataType", 2, 1>>,
       <<"BitPix", 2, 1>>, <<"SliceStart", 2, 1>>, <<"PixDim", 4, 8>>,
       <<"VoxOffset", 4, 1>>, <<"SclSlope", 4, 1>>, <<"SclInter", 4, 1>>,
       <<"SliceEnd", 2, 1>>, <<"SliceCode", 1, 1>>, <<"XYZTUnits", 1, 1>>,
       <<"CalMax", 4, 1>>, <<"CalMin", 4, 1>>, <<"SliceDuration", 4, 1>>,
       <<"TOffset", 4, 1>>, <<"UnusedGlmax", 4, 1>>, <<"UnusedGlmin", 4, 1>>,
       <<"Descrip", 1, 80>>, <<"AuxFile", 1, 24>>,
       <<"QFormCode", 2, 1>>, <<"SFormCode", 2, 1>>,
       <<"QuaternB", 4, 1>>, <<"QuaternC", 4, 1>>, <<"QuaternD", 4, 1>>,
       <<"QOffsetX", 4, 1>>, <<"QOffsetY", 4, 1>>, <<"QOffsetZ", 4, 1>>,
       <<"SRowX", 4, 4>>, <<"SRowY", 4, 4>>, <<"SRowZ", 4, 4>>,
       <<"IntentName", 1, 16>>, <<"Magic", 1, 4>> >>

FieldNames == {FieldTable[i][1] : i \in 1..Len(FieldTable)}

\* The byte offset of field i: binary.Read packs the fields without padding.
RECURSIVE FieldOffset(_)
FieldOffset(i) ==
    IF i = 1 THEN 0
    ELSE FieldOffset(i - 1) + FieldTable[i - 1][2] * FieldTable[i - 1][3]

\* The byte offsets of all fields.
FieldOffsets == [i \in 1..Len(FieldTable) |-> FieldOffset(i)]

FieldIndexes ==
    [name \in FieldNames |-> CHOOSE i \in 1..Len(FieldTable) : FieldTable[i][1] = name]
FieldIndex(name) == FieldIndexes[name]

\* binary.Size(Header{}): the bytes one binary.Read of a Header consumes.
HeaderBytes ==
    FieldOffset(Len(FieldTable))
        + FieldTable[Len(FieldTable)][2] * FieldTable[Len(FieldTable)][3]

\* Header{}: every element zero.
ZeroHeader ==
    [name \in FieldNames |-> [k \in 1..FieldTable[FieldIndex(name)][3] |-> 0]]

\* 256^p
Pow256(p) == CASE p = 0 -> 1 [] p = 1 -> 256 [] p = 2 -> 65536 [] p = 3 -> 16777216

\* Where, among the w bytes of an element, the byte of significance p (0 the
\* least) lies under the byte order: LittleEndian stores it first.
BytePlace(p, w, o) == IF o = LittleEndian THEN p + 1 ELSE w - p

\* order.Uint16 / order.Uint32 of the w bytes that follow offset off, then the
\* conversion to the signed field type; a single byte converts to int8.
DecodeElem(bytes, off, w, o) ==
    LET byte(p) == bytes[off + BytePlace(p, w, o)]
        top == IF byte(w - 1) >= 128 THEN byte(w - 1) - 256 ELSE byte(w - 1)
    IN  CASE w = 1 -> top
          [] w = 2 -> top * 256 + byte(0)
          [] w = 4 -> top * 16777216 + byte(2) * 65536 + byte(1) * 256 + byte(0)

\* order.PutUint16 / order.PutUint32 of the two's complement of v: the byte
\* stored at place j (from 1) of the element's w bytes.
EncodeElem(v, w, o, j) ==
    LET p == IF o = LittleEndian THEN j - 1 ELSE w - j
    IN  (v \div Pow256(p)) % 256

\* The struct decoded from the HeaderBytes bytes that follow offset pos.
DecodeHeader(bytes, pos, o) ==
    [name \in FieldNames |->
        LET i == FieldIndex(name)
            w == FieldTable[i][2]
            off == FieldOffsets[i]
        IN  [k \in 1..FieldTable[i][3] |->
                DecodeElem(bytes, pos + off + (k - 1) * w, w, o)]]

\* The field that holds byte k (from 1) of the encoded struct.
FieldAt ==
    [k \in 1..HeaderBytes |->
        CHOOSE i \in 1..Len(FieldTable) :
            /\ FieldOffsets[i] < k
            /\ k <= FieldOffsets[i] + FieldTable[i][2] * FieldTable[i][3]]

\* The HeaderBytes bytes binary.Write gives for the struct: byte k belongs to
\* one element of one field.
EncodeHeader(hd, o) ==
    [k \in 1..HeaderBytes |->
        LET i == FieldAt[k]
            w == FieldTable[i][2]
            rel == k - 1 - FieldOffsets[i]
        IN  EncodeElem(hd[FieldTable[i][1]][(rel \div w) + 1], w, o, (rel % w) + 1)]

\* binary.Read(buf, order, &h) on a bytes.Reader at offset pos: io.ReadFull of
\* HeaderBytes bytes, an error (EOF, ErrUnexpectedEOF) when fewer remain.
binaryRead(bytes, pos, o) ==
    IF Len(bytes) - pos >= HeaderBytes
    THEN [ok |-> TRUE, pos |-> pos + HeaderBytes,
          h |-> DecodeHeader(bytes, pos, o)]
    ELSE [ok |-> FALSE, pos |-> Len(bytes), h |-> ZeroHeader]


---------------------------------------------------------------------------
(* float32: the value of a bit pattern, as far as the program uses it *)

\* The bits without the sign bit.
F32Low31(bits) == IF bits < 0 THEN (bits + 2147483647) + 1 ELSE bits
F32Neg(bits) == bits < 0
F32Exp(bits) == F32Low31(bits) \div 8388608
F32Man(bits) == F32Low31(bits) % 8388608
F32IsNaN(bits) == F32Exp(bits) = 255 /\ F32Man(bits) # 0
F32IsInf(bits) == F32Exp(bits) = 255 /\ F32Man(bits) = 0
\* finite and of magnitude below 2^31
F32Small(bits) == F32Exp(bits) <= 127 + 30

RECURSIVE Pow2(_)
Pow2(n) == IF n = 0 THEN 1 ELSE 2 * Pow2(n - 1)

\* The magnitude of a small value truncated toward zero.
F32TruncMag(bits) ==
    LET e == F32Exp(bits) - 127
        sig == 8388608 + F32Man(bits)
    IN  IF e < 0 THEN 0
        ELSE IF e <= 23 THEN sig \div Pow2(23 - e)
        ELSE sig * Pow2(e - 23)

\* The float32 comparison x < n against an untyped integer constant n > 0.
F32Less(bits, n) ==
    IF F32IsNaN(bits) THEN FALSE
    ELSE IF F32Neg(bits) THEN TRUE
    ELSE IF ~F32Small(bits) THEN FALSE
    ELSE F32TruncMag(bits) < n

\* The conversion int(x).  A value an int cannot hold (NaN, an infinity, a
\* magnitude of 2^63 or more) converts to an implementation-dependent int:
\* the minimum int on amd64; 0 for NaN and the saturated int on arm64.  The
\* model's integers stop at 2^31 - 1, which also stands for every larger int:
\* no buffer of the model is that long.
F32ToInt(bits) ==
    IF F32IsNaN(bits) THEN {-2147483647, 0}
    ELSE IF ~F32Small(bits)
         THEN IF F32IsInf(bits) \/ F32Exp(bits) >= 127 + 63
              THEN {-2147483647, IF F32Neg(bits) THEN -2147483647 ELSE 2147483647}
              ELSE {IF F32Neg(bits) THEN -2147483647 ELSE 2147483647}
    ELSE {IF F32Neg(bits) THEN -F32TruncMag(bits) ELSE F32TruncMag(bits)}

\* Go's integer division truncates toward zero.
GoDiv(a, d) == IF a >= 0 THEN a \div d ELSE -((-a) \div d)

---------------------------------------------------------------------------
(* package nifti1 *)

\* new(Image): every field zero, Data nil.  A float64 field holds the bit
\* pattern of the float32 it was widened from (0 is +0.0); the []byte Data
\* is the window [lo, hi) into the backing array of the buffer.
ZeroImage ==
    [NDim |-> 0, Nx |-> 0, Ny |-> 0, Nz |-> 0, Nt |-> 0, Nu |-> 0, Nv |-> 0,
     Nw |-> 0, Dim |-> [i \in 0..7 |-> 0], NVox |-> 0, NByPer |-> 0,
     DataType |-> 0, PixDim |-> [i \in 0..7 |-> 0],
     SclSlope |-> 0, SclInter |-> 0, CalMin |-> 0, CalMax |-> 0,
     QFormCode |-> 0, SFormCode |-> 0, SliceCode |-> 0, SliceStart |-> 0,
     SliceEnd |-> 0, SliceDuration |-> 0,
     ByteOrder |-> "", Data |-> [lo |-> 0, hi |-> 0]]

\* The probe of ReadHeader: (h.Dim[0] <= 0) && (h.Dim[0] > 7).
dimOutOfRange(d) == (d <= 0) /\ (d > 7)

\* [4]int8{110, 43, 49, 0}
magicN1 == <<110, 43, 49, 0>>

\* validateHeader with the magic case before the header size case.
validateHeader_magicFirst(hd) ==
    CASE hd.Magic # magicN1 -> "magic"
      [] hd.SizeOfHdr[1] # minHeaderSize -> "size"
      [] hd.DataType[1] = DT_BINARY \/ hd.DataType[1] = DT_UNKNOWN -> "datatype"
      [] OTHER -> ""

\* validateHeader: the log.Fatal of the first case of the switch that holds,
\* "" when none does.
validateHeader(hd) ==
    IF hd.SizeOfHdr[1] # minHeaderSize THEN "size"
    ELSE IF hd.Magic # magicN1 THEN "magic"
    ELSE IF hd.DataType[1] = DT_BINARY \/ hd.DataType[1] = DT_UNKNOWN THEN "datatype"
    ELSE ""

\* ReadHeader(b): [err, h, order, decodes].  err is "" when it returns (h, order),
\* and else names what ended the process: "read" (check(err) after a
\* binary.Read), "byteorder" (the panic of line 221), or validateHeader's.
\* The second binary.Read reads on from where the first one left the reader.
ReadHeaderCall(bytes) ==
    LET r1 == binaryRead(bytes, 0, LittleEndian)
        d1 == <<LittleEndian, 0>>
    IN  IF ~r1.ok
        THEN [err |-> "read", h |-> r1.h, order |-> LittleEndian, decodes |-> <<d1>>]
        ELSE
        LET again == dimOutOfRange(r1.h.Dim[1])
            r2 == binaryRead(bytes, r1.pos, BigEndian)
            hd == IF again THEN r2.h ELSE r1.h
            o == IF again THEN BigEndian ELSE LittleEndian
            ds == IF again THEN <<d1, <<BigEndian, r1.pos>> >> ELSE <<d1>>
        IN  IF again /\ ~r2.ok
            THEN [err |-> "read", h |-> hd, order |-> o, decodes |-> ds]
            ELSE IF dimOutOfRange(hd.Dim[1])
            THEN [err |-> "byteorder", h |-> hd, order |-> o, decodes |-> ds]
            ELSE [err |-> validateHeader(hd), h |-> hd, order |-> o, decodes |-> ds]

\* ConvertHeaderToImage(h, order): the *Image it returns.
ConvertHeaderToImageCall(hd, o) ==
    [ZeroImage EXCEPT
        !.NDim = hd.Dim[1], !.Nx = hd.Dim[2], !.Ny = hd.Dim[3], !.Nz = hd.Dim[4],
        !.Nt = hd.Dim[5], !.Nu = hd.Dim[6], !.Nv = hd.Dim[7], !.Nw = hd.Dim[8],
        !.ByteOrder = o,
        !.Dim = [i \in 0..7 |-> hd.Dim[i + 1]]]

\* The offset when vox_offset is taken as it is, however small.
dataOffset_trusted(hd) == F32ToInt(hd.VoxOffset[1])

\* SetData: the values offset may take (one, unless int(h.VoxOffset) is
\* implementation-dependent).
dataOffset(hd) ==
    IF F32Less(hd.VoxOffset[1], headerSize) THEN {headerSize}
    ELSE F32ToInt(hd.VoxOffset[1])

\* dataSize without the 5th extent.
dataSize_noStatDim(img, hd) ==
    LET timeDim == IF img.Dim[4] > 0 THEN img.Dim[4] ELSE 1
    IN  img.Dim[1] * img.Dim[2] * img.Dim[3] * timeDim * GoDiv(hd.BitPix[1], 8)

\* SetData: dataSize.
dataSize(img, hd) ==
    LET timeDim == IF img.Dim[4] > 0 THEN img.Dim[4] ELSE 1
        statDim == IF img.Dim[5] > 0 THEN img.Dim[5] ELSE 1
    IN  img.Dim[1] * img.Dim[2] * img.Dim[3] * timeDim * statDim
            * GoDiv(hd.BitPix[1], 8)

\* The slice expression b[lo:hi] of a []byte: in range when
\* 0 <= lo <= hi <= cap(b), and a run-time panic otherwise.  (lo is compared
\* with cap(b) first: an offset standing for a larger int has no sum in the model.)
sliceInRange(buf, lo, hi) ==
    0 <= lo /\ lo <= buf.cap /\ lo <= hi /\ hi <= buf.cap

---------------------------------------------------------------------------
(* The input files of the decode pipeline *)

\* vox_offset as written to the file: the float32 bit patterns of
\* 0.0, 352.0, 353.5, 500.0 and of a NaN.
VoxOffsetInputs == {0, 1135607808, 1135656960, 1140457472, 2143289344}

\* scl_slope as written: 0.0 and 2.0.
SclSlopeInputs == {0, 1073741824}

\* magic as written: "n+1\0" and "ni1\0".
MagicInputs == {magicN1, <<110, 105, 49, 0>>}

\* sizeof_hdr as written: NIfTI-1's and NIfTI-2's.
SizeOfHdrInputs == {minHeaderSize, 540}

\* datatype as written: DT_UNKNOWN, DT_BINARY, DT_SIGNED_SHORT.
DataTypeInputs == {DT_UNKNOWN, DT_BINARY, 4}

\* dim[0] as written, where the byte order probe is exercised.
Dim0Inputs == {0, 3, 5, 8}

\* dim[0], dim[2..7] as written, where the voxel layout is exercised.
DimInputs ==
    { <<3, 2, 2, 0, 0, 0, 0>>, <<3, 2, 3, 1, 1, 1, 1>>, <<4, 1, 2, 2, 0, 0, 0>>,
      <<5, 2, 1, 2, 3, 0, 0>>, <<3, 2, 2, -1, 0, 0, 0>>, <<5, 1, 2, 0, 3, 0, 0>> }

\* bitpix as written.
BitPixInputs == {8, 12, 16}

\* A header whose other fields are fixed: unit spacing, intercept 1.0,
\* calibration range 1.0..2.0, slices 0..1 in sequential order, 1.0 per
\* slice, scanner-anatomical transforms.
InputHeader(sz, mg, dt, dim, bp, vo, sl) ==
    [ZeroHeader EXCEPT
        !.SizeOfHdr = <<sz>>, !.Magic = mg, !.DataType = <<dt>>, !.Dim = dim,
        !.BitPix = <<bp>>, !.VoxOffset = <<vo>>, !.SclSlope = <<sl>>,
        !.SclInter = <<1065353216>>,
        !.PixDim = [k \in 1..8 |-> 1065353216],
        !.CalMax = <<1073741824>>, !.CalMin = <<1065353216>>,
        !.SliceStart = <<0>>, !.SliceEnd = <<1>>, !.SliceCode = <<1>>,
        !.SliceDuration = <<1065353216>>,
        !.QFormCode = <<1>>, !.SFormCode = <<1>>]

\* Where the writer of the file put the first voxel, and the bytes of its voxels.
WrittenStart(vo) ==
    IF vo = 1135656960 THEN 353 ELSE IF vo = 1140457472 THEN 500 ELSE headerSize
WrittenVoxels(dim, bp) ==
    dim[2] * dim[3] * dim[4] * (IF dim[5] > 0 THEN dim[5] ELSE 1)
        * (IF dim[6] > 0 THEN dim[6] ELSE 1) * (bp \div 8)

\* The file: the header under byte order o, the 4 bytes of the extension
\* flag (0), then bytes of value 1 up to length n; the buffer holding it has
\* capacity c.
FileBuffer(hd, o, n, c) ==
    [data |-> SubSeq(EncodeHeader(hd, o)
                        \o [k \in 1..(n - HeaderBytes) |->
                               IF k <= headerSize - HeaderBytes THEN 0 ELSE 1],
                     1, n),
     cap |-> c]

\* The buffers main hands to ReadHeader when the fields that the byte order
\* probe and the validation read vary: the file is little- or big-endian, and
\* complete or cut inside the header.
ProbeBuffers ==
    { FileBuffer(InputHeader(sz, mg, dt, <<d0, 2, 2, 2, 0, 0, 0, 0>>, 16, 1135607808, sl),
                 o, n, n) :
        sz \in SizeOfHdrInputs, mg \in MagicInputs, dt \in DataTypeInputs,
        d0 \in Dim0Inputs, sl \in SclSlopeInputs, o \in {LittleEndian, BigEndian},
        n \in {minHeaderSize - 1, headerSize + 16} }

\* The lengths of a file whose voxels end at offset e: cut short by up to
\* MaxSlack bytes, exact, or one byte longer.
FileLengths(e) == (e - MaxSlack)..(e + 1)

\* The buffers main hands to ReadHeader when the header is a valid
\* little-endian one and the voxel layout, the length of the file and the
\* capacity of the buffer vary.  A buffer's capacity is at least its length:
\* ioutil.ReadFile and ioutil.ReadAll return slices with spare capacity,
\* make([]byte, n) one with none.
LayoutBuffers ==
    UNION { UNION {
        { FileBuffer(InputHeader(minHeaderSize, magicN1, 4,
                                 <<d[1], nx, d[2], d[3], d[4], d[5], d[6], d[7]>>,
                                 bp, vo, 1073741824),
                     LittleEndian, n, n + s) :
            n \in FileLengths(WrittenStart(vo)
                     + WrittenVoxels(<<d[1], nx, d[2], d[3], d[4], d[5]>>, bp)),
            s \in 0..MaxSlack } :
        nx \in 1..MaxExtent, d \in DimInputs } :
        bp \in BitPixInputs, vo \in VoxOffsetInputs }

InputBuffers == ProbeBuffers \cup LayoutBuffers

\* main, before the call of ReadHeader; the other programs do not run.
Init ==
    /\ b \in InputBuffers
    /\ pc = "ReadHeader"
    /\ err = ""
    /\ h = ZeroHeader
    /\ decodes = << >>
    /\ header = ZeroHeader
    /\ byteOrder = ""
    /\ image = ZeroImage
    /\ data = << >> /\ m = 0 /\ bInter = 0 /\ scaled = << >> /\ spc = "idle"
    /\ filesize = 0 /\ bufferSize = 1 /\ chunksizes = << >> /\ rpc = "idle"
    /\ spawned = 0 /\ wpc = << >> /\ wg = 0 /\ writers = << >>

---------------------------------------------------------------------------
(* main: ReadHeader, ConvertHeaderToImage, SetData *)

\* header, byteOrder := nifti1.ReadHeader(allBytes)
ReadHeader ==
    /\ pc = "ReadHeader"
    /\ \E r \in {ReadHeaderCall(b.data)} :
           /\ h' = r.h
           /\ decodes' = r.decodes
           /\ err' = r.err
           /\ IF r.err = ""
              THEN /\ header' = r.h
                   /\ byteOrder' = r.order
                   /\ pc' = "ConvertHeaderToImage"
              ELSE /\ UNCHANGED <<header, byteOrder>>
                   /\ pc' = "exit"
    /\ UNCHANGED <<b, image, scaleVars, parVars>>

\* image := nifti1.ConvertHeaderToImage(header, byteOrder)
ConvertHeaderToImage ==
    /\ pc = "ConvertHeaderToImage"
    /\ image' = ConvertHeaderToImageCall(header, byteOrder)
    /\ pc' = "SetData"
    /\ UNCHANGED <<b, err, h, decodes, header, byteOrder, scaleVars, parVars>>

\* image.SetData(allBytes, header)
SetData ==
    /\ pc = "SetData"
    /\ \E offset \in dataOffset(header) :
          LET inRange == /\ 0 <= offset
                         /\ offset <= b.cap
                         /\ sliceInRange(b, offset, offset + dataSize(image, header))
          IN  IF inRange
              THEN /\ image' = [image EXCEPT !.Data =
                            [lo |-> offset, hi |-> offset + dataSize(image, header)]]
                   /\ pc' = "done"
                   /\ err' = err
              ELSE /\ image' = image
                   /\ pc' = "exit"
                   /\ err' = "bounds"
    /\ UNCHANGED <<b, h, decodes, header, byteOrder, scaleVars, parVars>>

Next == ReadHeader \/ ConvertHeaderToImage \/ SetData

Spec == Init /\ [][Next]_vars

---------------------------------------------------------------------------
(* The first program: scaleData *)

\* The int16 samples, slopes and intercepts scaleData is given.  Each float32
\* is a small integer here, so every product and sum below is exact in float32.
SampleInputs == {-3, 0, 5}
SlopeInputs == {-1, 0, 2}
InterInputs == {0, 1}

RECURSIVE SeqsUpTo(_, _)
SeqsUpTo(S, n) ==
    IF n = 0 THEN {<< >>}
    ELSE SeqsUpTo(S, n - 1)
            \cup {Append(q, x) : q \in {r \in SeqsUpTo(S, n - 1) : Len(r) = n - 1}, x \in S}

\* scaleData(data, m, b): dataScaled[i] = m*float32(d) + b for every sample.
scaleDataCall(d, slope, inter) ==
    [i \in 1..Len(d) |-> slope * d[i] + inter]

\* Before the call of scaleData; the other programs do not run.
ScaleInit ==
    /\ data \in SeqsUpTo(SampleInputs, MaxSamples)
    /\ m \in SlopeInputs
    /\ bInter \in InterInputs
    /\ scaled = << >>
    /\ spc = "scale"
    /\ b = [data |-> << >>, cap |-> 0]
    /\ pc = "idle" /\ err = "" /\ h = ZeroHeader /\ decodes = << >>
    /\ header = ZeroHeader /\ byteOrder = "" /\ image = ZeroImage
    /\ filesize = 0 /\ bufferSize = 1 /\ chunksizes = << >> /\ rpc = "idle"
    /\ spawned = 0 /\ wpc = << >> /\ wg = 0 /\ writers = << >>

\* A call scaleData(data, header.SclSlope, header.SclInter).
scaleData ==
    /\ spc = "scale"
    /\ scaled' = scaleDataCall(data, m, bInter)
    /\ spc' = "done"
    /\ UNCHANGED <<data, m, bInter, pipeVars, parVars>>

ScaleNext == scaleData

SpecScale == ScaleInit /\ [][ScaleNext]_vars

---------------------------------------------------------------------------
(* package util: ReadBytesParallel *)

\* The remainder's chunk placed at the offset of the last full chunk.
remainderOffset_lastChunk(conc, size) == (conc - 1) * size

\* The chunk of the remainder starts where the full chunks end.
remainderOffset(conc, size) == conc * size

\* chunksizes as the two loops leave it: concurrency chunks of bufferSize
\* bytes at offsets bufferSize * i, then one of the remainder, if any.
chunksOf(fsize, size) ==
    LET conc == fsize \div size
        full == [i \in 1..conc |-> [bufsize |-> size, offset |-> size * (i - 1)]]
    IN  IF fsize % size # 0
        THEN Append(full, [bufsize |-> fsize % size,
                           offset |-> remainderOffset(conc, size)])
        ELSE full

\* ReadBytesParallel, after file.Stat(); the other programs do not run.
ParInit ==
    /\ b = [data |-> << >>, cap |-> 0]
    /\ pc = "idle" /\ err = "" /\ h = ZeroHeader /\ decodes = << >>
    /\ header = ZeroHeader /\ byteOrder = "" /\ image = ZeroImage
    /\ data = << >> /\ m = 0 /\ bInter = 0 /\ scaled = << >> /\ spc = "idle"
    /\ filesize \in 0..MaxFileSize
    /\ bufferSize \in 1..MaxBufferSize
    /\ chunksizes = << >>
    /\ rpc = "chunk"
    /\ spawned = 0
    /\ wpc = << >>
    /\ wg = 0
    /\ writers = << >>

\* Lines 357-386: the chunks, wg.Add(concurrency), allBytes := make([]byte, filesize).
Chunk ==
    /\ rpc = "chunk"
    /\ chunksizes' = chunksOf(filesize, bufferSize)
    /\ wg' = Len(chunksizes')
    /\ wpc' = [i \in 1..Len(chunksizes') |-> [st |-> "none", n |-> 0]]
    /\ writers' = [k \in 1..filesize |-> {}]
    /\ rpc' = "spawn"
    /\ UNCHANGED <<filesize, bufferSize, spawned, pipeVars, scaleVars>>

\* One turn of the loop of line 388: go func(chunksizes, i); after the last,
\* main is at wg.Wait().
Spawn ==
    /\ rpc = "spawn"
    /\ IF spawned < Len(chunksizes)
       THEN /\ wpc' = [wpc EXCEPT ![spawned + 1].st = "reading"]
            /\ spawned' = spawned + 1
            /\ rpc' = rpc
       ELSE /\ rpc' = "wait"
            /\ UNCHANGED <<wpc, spawned, pipeVars, scaleVars>>
    /\ UNCHANGED <<filesize, bufferSize, chunksizes, wg, writers, pipeVars, scaleVars>>

\* Goroutine i, inside file.ReadAt(allBytes[start:end], chunk.offset): the
\* next byte of its slice is written.
WorkerWrite(i) ==
    /\ rpc \in {"spawn", "wait"}
    /\ wpc[i].st = "reading"
    /\ wpc[i].n < chunksizes[i].bufsize
    /\ writers' = [writers EXCEPT ![chunksizes[i].offset + wpc[i].n + 1] = @ \cup {i}]
    /\ wpc' = [wpc EXCEPT ![i].n = @ + 1]
    /\ UNCHANGED <<filesize, bufferSize, chunksizes, rpc, spawned, wg, pipeVars, scaleVars>>

\* Goroutine i, ReadAt has returned: with the whole slice read, or with fewer
\* bytes and an error (the file has become shorter); the goroutine prints the
\* error and returns, and the deferred wg.Done() runs.
WorkerDone(i) ==
    /\ rpc \in {"spawn", "wait"}
    /\ wpc[i].st = "reading"
    /\ wpc[i].n >= 1
    /\ wpc' = [wpc EXCEPT ![i].st = "done"]
    /\ wg' = wg - 1
    /\ UNCHANGED <<filesize, bufferSize, chunksizes, rpc, spawned, writers, pipeVars, scaleVars>>

\* Goroutine i, ReadAt has returned with no byte read: the panic of line 397
\* ends the process.
WorkerPanic(i) ==
    /\ rpc \in {"spawn", "wait"}
    /\ wpc[i].st = "reading"
    /\ wpc[i].n = 0
    /\ rpc' = "panic"
    /\ UNCHANGED <<filesize, bufferSize, chunksizes, spawned, wpc, wg, writers, pipeVars, scaleVars>>

\* wg.Wait() returns when the counter is zero; return allBytes.
Return ==
    /\ rpc = "wait"
    /\ wg = 0
    /\ rpc' = "returned"
    /\ UNCHANGED <<filesize, bufferSize, chunksizes, spawned, wpc, wg, writers, pipeVars, scaleVars>>

ParNext ==
    \/ Chunk
    \/ Spawn
    \/ \E i \in DOMAIN wpc : WorkerWrite(i)
    \/ \E i \in DOMAIN wpc : WorkerDone(i)
    \/ \E i \in DOMAIN wpc : WorkerPanic(i)
    \/ Return

SpecPar == ParInit /\ [][ParNext]_vars

---------------------------------------------------------------------------
(* Claims about the decode pipeline, checked under Spec *)

\* ReadHeader has returned to main.
ReadHeaderReturned == pc \in {"ConvertHeaderToImage", "SetData", "done"} \/ err = "bounds"

\* ConvertHeaderToImage has returned to main.
ImageBuilt == pc \in {"SetData", "done"} \/ err = "bounds"

\* dim[0] of the buffer as each byte order reads it.
Dim0As(o) == DecodeElem(b.data, FieldOffsets[FieldIndex("Dim")], 2, o)

\* C1: for a buffer of at least 348 bytes, when dim[0] read little-endian is
\* outside [1,7] and read big-endian is inside, ReadHeader decodes a second
\* time, big-endian, from byte 0, and what it returns is the header as encoded
\* big-endian, with byte order big-endian; when dim[0] read little-endian is
\* inside [1,7] it decodes once and returns little-endian.
C1_BigEndianFallback ==
    (pc # "ReadHeader" /\ Len(b.data) >= 348) =>
        /\ (Dim0As(LittleEndian) \notin 1..7 /\ Dim0As(BigEndian) \in 1..7) =>
              /\ decodes = << <<LittleEndian, 0>>, <<BigEndian, 0>> >>
              /\ ReadHeaderReturned =>
                    /\ byteOrder = BigEndian
                    /\ EncodeHeader(header, BigEndian) = SubSeq(b.data, 1, 348)
        /\ Dim0As(LittleEndian) \in 1..7 =>
              /\ decodes = << <<LittleEndian, 0>> >>
              /\ ReadHeaderReturned => byteOrder = LittleEndian

\* C2: for a buffer whose dim[0] is outside [1,7] under both byte orders,
\* ReadHeader ends with the indeterminate-byte-order error and returns neither
\* a header nor a byte order.
C2_IndeterminateByteOrder ==
    (/\ pc # "ReadHeader"
     /\ Len(b.data) >= 348
     /\ Dim0As(LittleEndian) \notin 1..7
     /\ Dim0As(BigEndian) \notin 1..7) =>
        err = "byteorder" /\ ~ReadHeaderReturned

\* C3: validateHeader reports the first failing check in the order header
\* size, magic, data type, and nothing when all three pass; so a header that
\* ReadHeader returns has sizeof_hdr 348, magic "n+1\0" and a datatype that is
\* neither unknown (0) nor binary (1).
C3_ValidationOrder ==
    (pc # "ReadHeader" /\ err \notin {"read", "byteorder"}) =>
        /\ h.SizeOfHdr[1] # 348 => err = "size"
        /\ (h.SizeOfHdr[1] = 348 /\ h.Magic # <<110, 43, 49, 0>>) => err = "magic"
        /\ (h.SizeOfHdr[1] = 348 /\ h.Magic = <<110, 43, 49, 0>>
                /\ h.DataType[1] \in {0, 1}) => err = "datatype"
        /\ (h.SizeOfHdr[1] = 348 /\ h.Magic = <<110, 43, 49, 0>>
                /\ h.DataType[1] \notin {0, 1}) => (ReadHeaderReturned /\ header = h)
        /\ ReadHeaderReturned =>
              /\ header.SizeOfHdr[1] = 348
              /\ header.Magic = <<110, 43, 49, 0>>
              /\ header.DataType[1] \notin {0, 1}

\* C3, witness: sizeof_hdr = 540 with a correct magic is reported as the
\* header size.
C3_Witness ==
    /\ pc = "exit" /\ err = "size"
    /\ h.SizeOfHdr[1] = 540 /\ h.Magic = <<110, 43, 49, 0>>

Max1(n) == IF n > 1 THEN n ELSE 1

\* C4: for a validated header of rank at least 3 with non-zero dim[1..3], the
\* image's NVox is nx*ny*nz*max(nt,1)*max(nu,1).
C4_VoxelCount ==
    (/\ ImageBuilt
     /\ header.Dim[1] >= 3
     /\ header.Dim[2] # 0 /\ header.Dim[3] # 0 /\ header.Dim[4] # 0) =>
        image.NVox = header.Dim[2] * header.Dim[3] * header.Dim[4]
                        * Max1(header.Dim[5]) * Max1(header.Dim[6])

\* C5: SetData fails whenever offset + length exceeds the length of the
\* buffer: after a successful SetData the view ends within the buffer's length.
C5_ViewWithinLength ==
    pc = "done" => image.Data.hi <= Len(b.data)

\* The vox_offset values of the input files, doubled: 0.0, 352.0, 353.5, 500.0.
VoxOffsetTwice ==
    (0 :> 0) @@ (1135607808 :> 704) @@ (1135656960 :> 707) @@ (1140457472 :> 1000)

\* C6: the view SetData assigns starts at 352 when vox_offset < 352, and at
\* vox_offset, as an integer byte index, when vox_offset >= 352.
C6_ViewOffset ==
    (pc = "done" /\ header.VoxOffset[1] \in DOMAIN VoxOffsetTwice) =>
        LET twice == VoxOffsetTwice[header.VoxOffset[1]]
        IN  image.Data.lo = IF twice < 2 * 352 THEN 352 ELSE twice \div 2

\* C6, witness: vox_offset = 500.0 gives a view that starts at byte 500.
C6_Witness ==
    pc = "done" /\ header.VoxOffset[1] = 1140457472 /\ image.Data.lo = 500

C8_DescriptorFields ==
    ImageBuilt =>
        /\ image.NDim = header.Dim[1]
        /\ \A i \in 0..7 : image.Dim[i] = header.Dim[i + 1]
        /\ <<image.Nx, image.Ny, image.Nz, image.Nt, image.Nu, image.Nv, image.Nw>>
              = SubSeq(header.Dim, 2, 8)
        /\ image.ByteOrder = byteOrder
        /\ image.SclSlope = header.SclSlope[1]
        /\ image.SclInter = header.SclInter[1]
        /\ image.CalMin = header.CalMin[1]
        /\ image.CalMax = header.CalMax[1]
        /\ image.SliceStart = header.SliceStart[1]
        /\ image.SliceEnd = header.SliceEnd[1]
        /\ image.SliceCode = header.SliceCode[1]
        /\ image.SliceDuration = header.SliceDuration[1]
        /\ image.QFormCode = header.QFormCode[1]
        /\ image.SFormCode = header.SFormCode[1]
        /\ \A i \in 0..7 : image.PixDim[i] = header.PixDim[i + 1]

\* The header main holds passed the three checks of validateHeader.
HeaderChecksPassed ==
    /\ header.SizeOfHdr[1] = 348
    /\ header.Magic = <<110, 43, 49, 0>>
    /\ header.DataType[1] \notin {0, 1}

\* The order of the pipeline's steps and the finality of its errors: main
\* holds no header before ReadHeader returns one that passed validation, no
\* image before ConvertHeaderToImage, no view before SetData succeeds; and
\* once an error is raised the process has ended and no step is enabled.
PipelineOrderAndFinality ==
    /\ ~ReadHeaderReturned => (header = ZeroHeader /\ byteOrder = "" /\ image = ZeroImage)
    /\ ReadHeaderReturned => HeaderChecksPassed
    /\ ~ImageBuilt => image = ZeroImage
    /\ pc # "done" => image.Data = ZeroImage.Data
    /\ err # "" => (pc = "exit" /\ ~ENABLED Next)
    /\ pc = "done" => err = ""

\* C11: in every run of ReadHeader, ConvertHeaderToImage, SetData, the image is
\* built and the view assigned only after the byte order probe (dim[0] within
\* [1,7] under the byte order taken) and the validation checks have succeeded;
\* every error ends the run with no later step; and a run that ends without
\* error leaves a valid image and a view that lies within the buffer's bytes,
\* any other run leaves no view.
C11_ValidOrNothing ==
    /\ PipelineOrderAndFinality
    /\ ImageBuilt => header.Dim[1] \in 1..7
    /\ pc = "done" =>
          /\ image.ByteOrder = byteOrder
          /\ image.NDim = header.Dim[1]
          /\ 0 <= image.Data.lo
          /\ image.Data.lo <= image.Data.hi
          /\ image.Data.hi <= Len(b.data)

---------------------------------------------------------------------------
(* Claim about scaleData, checked under SpecScale *)

\* C9: the rescaled value of every sample is slope*sample + intercept when the
\* slope is nonzero (slope 2, intercept 1, sample -3 gives -5), and the samples
\* come back unmodified when the slope is zero, whatever the intercept.
C9_RescaleOrSkip ==
    spc = "done" =>
        /\ Len(scaled) = Len(data)
        /\ m # 0 => \A i \in 1..Len(data) : scaled[i] = m * data[i] + bInter
        /\ m = 0 => scaled = data

---------------------------------------------------------------------------
(* Claim about ReadBytesParallel, checked under SpecPar *)

\* The indices of allBytes (from 0) that chunk c covers.
Region(c) == c.offset .. (c.offset + c.bufsize - 1)

\* C10: the regions assigned to the goroutines are pairwise disjoint and
\* together are exactly the indices 0..filesize-1; no index is written by two
\* goroutines; and the buffer is returned only when every goroutine has finished.
C10_DisjointCoverAndBarrier ==
    /\ rpc # "chunk" =>
          /\ \A i, j \in DOMAIN chunksizes :
                i # j => Region(chunksizes[i]) \cap Region(chunksizes[j]) = {}
          /\ UNION {Region(chunksizes[i]) : i \in DOMAIN chunksizes} = 0..(filesize - 1)
          /\ \A i \in DOMAIN chunksizes : chunksizes[i].bufsize > 0
    /\ \A k \in DOMAIN writers : Cardinality(writers[k]) <= 1
    /\ rpc = "returned" => \A i \in DOMAIN wpc : wpc[i].st = "done"

\* C10, witness: a file read in two full chunks and a remainder, returned
\* with every byte written.
C10_Witness ==
    /\ rpc = "returned"
    /\ Len(chunksizes) = 3
    /\ chunksizes[3].bufsize < bufferSize
    /\ \A k \in DOMAIN writers : writers[k] # {}

===========================================================================
